---- MODULE Spec2Model ----
(***************************************************************************)
(* Model of src/model_comparison.py: a benchmark harness that calls two    *)
(* HTTP backends ("ollama" and "runner") with the same prompts, records    *)
(* latency and token throughput, prints comparison tables and writes the   *)
(* raw records to a JSON snapshot.                                         *)
(*                                                                         *)
(* Number representation.  Python floats that the program rounds to two    *)
(* decimals are held as integers counting hundredths (333.33 is 33333).    *)
(* A value that pandas may report as NaN or inf is a record                *)
(* [kind |-> "num" | "nan" | "inf", c |-> hundredths].  Wall-clock         *)
(* readings (time.time() * 1000) are integers counting 1/TicksPerMs of a   *)
(* millisecond.  The preview text and the ISO timestamp of a record are    *)
(* pure formatting and are left out of the record.                         *)
(***************************************************************************)
EXTENDS Integers, Sequences, FiniteSets, TLC

\* ------------------------------------------------------------------ bounds
MaxPrompts == 2     \* len(PROMPTS) ranges over 0..MaxPrompts
MaxRuns == 3        \* RUNS_PER_PROMPT ranges over 0..MaxRuns
MaxWarmUp == 1      \* WARM_UP_RUNS ranges over 0..MaxWarmUp
MaxFaults == 1      \* transient transport failures of reachable backends
MaxTick == 12       \* clock readings range over 0..MaxTick ticks
TicksPerMs == 4     \* clock resolution: ticks per millisecond
MaxLen == 3         \* length of the record lists given to calculate_stats

\* --------------------------------------------------------------- variables
VARIABLES
    \* configuration (module constants of the script, lines 14-23)
    PROMPTS, RUNS_PER_PROMPT, WARM_UP_RUNS,
    \* environment of the scheduler: unreachable backends, the response
    \* profile of each reachable backend, transient failures so far
    down, backend, faults,
    \* main(): control position and loop variables
    pc, prompt_idx, i, run_idx,
    \* results (line 25), the first result of the running iteration, the
    \* calls issued so far (history), ratios printed by print_results_table,
    \* figures printed by generate_detailed_report, files written
    results, pending, calls, table, report, store,
    \* sampler harness: clock readings, response, call_model's return value
    \* and run_test's return value
    start_time, end_time, response, result, record,
    \* aggregator harness: data, calculate_stats(data), pandas figures
    data, stats, overall

schedVars == <<PROMPTS, RUNS_PER_PROMPT, WARM_UP_RUNS, down, backend, faults,
               pc, prompt_idx, i, run_idx, results, pending, calls, table,
               report, store>>
samplerVars == <<start_time, end_time, response, result, record>>
statsVars == <<data, stats, overall>>
vars == <<schedVars, samplerVars, statsVars>>

Models == {"ollama", "runner"}

\* ------------------------------------------------------------- arithmetic
Abs(x) == IF x < 0 THEN -x ELSE x

\* Mutant of RoundHalfEven: truncation as by int(), not rounding.
RoundDown(num, den) == num \div den

\* Python's round(): the integer nearest to num/den (den > 0), a tie going
\* to the even neighbour.
RoundHalfEven(num, den) ==
    LET q == num \div den
        r == num % den
    IN  IF 2 * r < den THEN q
        ELSE IF 2 * r > den THEN q + 1
        ELSE IF q % 2 = 0 THEN q ELSE q + 1

RECURSIVE Sum(_)
Sum(s) == IF s = << >> THEN 0 ELSE Head(s) + Sum(Tail(s))

\* Mutant of MinOf: the first value taken for the least.
FirstOf(s) == s[1]

RECURSIVE MinOf(_)
MinOf(s) ==
    IF Len(s) = 1 THEN s[1]
    ELSE LET m == MinOf(Tail(s)) IN IF s[1] <= m THEN s[1] ELSE m

RECURSIVE MaxOf(_)
MaxOf(s) ==
    IF Len(s) = 1 THEN s[1]
    ELSE LET m == MaxOf(Tail(s)) IN IF s[1] >= m THEN s[1] ELSE m

Num(c) == [kind |-> "num", c |-> c]
NaN == [kind |-> "nan", c |-> 0]
Inf == [kind |-> "inf", c |-> 0]

\* ----------------------------------------------------------------- sampler
\* A response text is a sequence of character classes: "w" a word character,
\* "p" a punctuation mark (neither word character nor white space), "s" white
\* space.
Texts == { << >>,
           <<"w", "w">>,
           <<"w", "s", "w">>,
           <<"w", "p", "s", "w", "p">> }

\* re.findall(r'\w+|[^\w\s]', text): one token per maximal run of word
\* characters and one per punctuation mark.
count_tokens(text) ==
    Cardinality({k \in 1..Len(text) :
                    \/ text[k] = "p"
                    \/ text[k] = "w" /\ (k = 1 \/ text[k - 1] # "w")})

\* What requests.post does: raise (ok = FALSE) or return a response.
Responses == [ok : BOOLEAN, status_code : {200, 500}, text : Texts]

\* Mutant of Throughput: cut to 2 decimals instead of rounded.
ThroughputTruncated(token_count, elapsed_ms) ==
    IF elapsed_ms > 0
    THEN (token_count * 1000 * 100) \div elapsed_ms
    ELSE 0

\* tokens_per_second of the success path (line 52), in hundredths after the
\* round(tokens_per_second, 2) of line 70.
Throughput(token_count, elapsed_ms) ==
    IF elapsed_ms > 0
    THEN RoundHalfEven(token_count * 1000 * 100, elapsed_ms)
    ELSE 0

\* The except branch of call_model (lines 54-59).
Sentinel ==
    [elapsed_ms |-> 0, status_code |-> 0, token_count |-> 0,
     tokens_per_second |-> 0]

\* Mutant of call_model: the except branch keeps the time measured until the
\* failure instead of resetting elapsed_ms.
call_model_timed_failure(start, end, resp) ==
    [elapsed_ms |-> RoundHalfEven(end - start, TicksPerMs),
     status_code |-> IF resp.ok THEN resp.status_code ELSE 0,
     token_count |-> IF resp.ok THEN count_tokens(resp.text) ELSE 0,
     tokens_per_second |->
        IF resp.ok
        THEN Throughput(count_tokens(resp.text),
                        RoundHalfEven(end - start, TicksPerMs))
        ELSE 0]

call_model(start, end, resp) ==
    IF resp.ok
    THEN LET token_count == count_tokens(resp.text)
             elapsed_ms == RoundHalfEven(end - start, TicksPerMs)
         IN  [elapsed_ms |-> elapsed_ms,
              status_code |-> resp.status_code,
              token_count |-> token_count,
              tokens_per_second |-> Throughput(token_count, elapsed_ms)]
    ELSE Sentinel

run_test(model_type, prompt, run_index, prompt_index, res) ==
    [model |-> model_type,
     prompt_index |-> prompt_index,
     prompt |-> prompt,
     run_index |-> run_index,
     elapsed_ms |-> res.elapsed_ms,
     status_code |-> res.status_code,
     token_count |-> res.token_count,
     tokens_per_second |-> res.tokens_per_second]

\* --------------------------------------------------------------- aggregator
\* round(statistics.mean(xs), 2) in hundredths; unit is 100 when xs holds
\* integers and 1 when xs already holds hundredths.
Mean(xs, unit) == RoundHalfEven(Sum(xs) * unit, Len(xs))

\* round(statistics.median(xs), 2) in hundredths.
Median(xs, unit) ==
    LET s == SortSeq(xs, LAMBDA a, b : a < b)
        n == Len(s)
    IN  IF n % 2 = 1 THEN s[(n + 1) \div 2] * unit
        ELSE RoundHalfEven((s[n \div 2] + s[n \div 2 + 1]) * unit, 2)

\* The least s in lo..hi with (2s + 1)^2 * den > 4 * num: the integer nearest
\* to the square root of num / den.
RECURSIVE NearestRoot(_, _, _, _)
NearestRoot(lo, hi, num, den) ==
    IF lo >= hi THEN lo
    ELSE LET mid == (lo + hi) \div 2
         IN  IF (2 * mid + 1) * (2 * mid + 1) * den > 4 * num
             THEN NearestRoot(lo, mid, num, den)
             ELSE NearestRoot(mid + 1, hi, num, den)

\* round(statistics.stdev(xs), 2) in hundredths, xs integers, Len(xs) > 1:
\* the sample standard deviation sqrt((n*Sum(x^2) - Sum(x)^2) / (n*(n-1))).
Stdev(xs) ==
    LET n == Len(xs)
        sq == [k \in 1..n |-> xs[k] * xs[k]]
        num == n * Sum(sq) - Sum(xs) * Sum(xs)
    IN  NearestRoot(0, 100 * (MaxOf(xs) - MinOf(xs)) + 1,
                    10000 * num, n * (n - 1))

Column(recs, f) == [k \in 1..Len(recs) |-> recs[k][f]]

\* The guard of line 123: stdev only of more than one value, else 0.
StdevGuarded(times) == IF Len(times) > 1 THEN Stdev(times) ELSE 0

\* calculate_stats: the empty mapping for no data, else the statistics, the
\* rounded ones in hundredths.
calculate_stats(d) ==
    IF d = << >> THEN << >>
    ELSE LET times == Column(d, "elapsed_ms")
             tokens == Column(d, "token_count")
             tps == Column(d, "tokens_per_second")
         IN  [count |-> Len(times),
              total_ms |-> Sum(times),
              min_ms |-> MinOf(times),
              max_ms |-> MaxOf(times),
              avg_ms |-> Mean(times, 100),
              median_ms |-> Median(times, 100),
              stdev_ms |-> StdevGuarded(times),
              avg_tokens |-> Mean(tokens, 100),
              avg_tokens_per_second |-> Mean(tps, 1),
              median_tokens_per_second |-> Median(tps, 1)]

\* pandas 'std' (ddof = 1) rounded to 2 decimals: NaN for fewer than two
\* values.
PandasStd(xs) == IF Len(xs) > 1 THEN Num(Stdev(xs)) ELSE NaN

\* One row of df.groupby('Model').agg(...).round(2), the 'Time (ms)' columns
\* count, mean, median, min, max and std (lines 199-204).  The 'Tokens/sec'
\* columns are aggregated by the same pandas functions.
OverallStats(recs) ==
    LET times == Column(recs, "elapsed_ms")
    IN  [count |-> Len(times),
         mean |-> Mean(times, 100),
         median |-> Median(times, 100),
         min |-> MinOf(times),
         max |-> MaxOf(times),
         std |-> PandasStd(times)]

\* ----------------------------------------------------------------- reporter
\* The records of one model for one prompt, in list order (lines 132-146).
Group(all_results, m, idx) ==
    SelectSeq(all_results[m], LAMBDA r : r.prompt_index = idx)

\* prompt_stats.keys(): the prompt indices that occur in the records.
PromptKeys(all_results) ==
    UNION {{all_results[m][k].prompt_index : k \in 1..Len(all_results[m])} :
            m \in Models}

\* round(a / b, 2) if b > 0 else 0 (lines 170-172); a, b and the result in
\* hundredths.
Ratio(a, b) == IF b > 0 THEN RoundHalfEven(a * 100, b) ELSE 0

\* ollama_stats / runner_stats of lines 156-168.
ModelStats(recs) ==
    [avg_time |-> Mean(Column(recs, "elapsed_ms"), 100),
     avg_tokens |-> Mean(Column(recs, "token_count"), 100),
     avg_tps |-> Mean(Column(recs, "tokens_per_second"), 1),
     median_tps |-> Median(Column(recs, "tokens_per_second"), 1)]

TableRow(all_results, idx) ==
    LET ollama_stats == ModelStats(Group(all_results, "ollama", idx))
        runner_stats == ModelStats(Group(all_results, "runner", idx))
    IN  [ollama |-> ollama_stats,
         runner |-> runner_stats,
         time_ratio |-> Ratio(ollama_stats.avg_time, runner_stats.avg_time),
         token_ratio |->
             Ratio(ollama_stats.avg_tokens, runner_stats.avg_tokens),
         tps_ratio |-> Ratio(runner_stats.avg_tps, ollama_stats.avg_tps)]

\* statistics.mean of an empty list raises StatisticsError.
TableRaises(all_results) ==
    \E idx \in PromptKeys(all_results), m \in Models :
        Group(all_results, m, idx) = << >>

print_results_table(all_results) ==
    [idx \in PromptKeys(all_results) |-> TableRow(all_results, idx)]

\* avg_tps['Runner'] / avg_tps['Ollama'] rounded to 2 decimals (lines
\* 216-217): a float64 division, x / 0 is inf for x > 0 and 0 / 0 is NaN.
\* The means are the unrounded sums over the counts.
Speedup(runner_recs, ollama_recs) ==
    IF runner_recs = << >> \/ ollama_recs = << >> THEN NaN
    ELSE LET num == Sum(Column(runner_recs, "tokens_per_second"))
                        * Len(ollama_recs)
             den == Sum(Column(ollama_recs, "tokens_per_second"))
                        * Len(runner_recs)
         IN  IF den = 0 THEN (IF num = 0 THEN NaN ELSE Inf)
             ELSE Num(RoundHalfEven(num * 100, den))

\* An empty DataFrame has no 'Model' column: groupby raises KeyError.
ReportRaises(all_results) ==
    \A m \in Models : all_results[m] = << >>

generate_detailed_report(all_results) ==
    [overall |->
        [m \in {x \in Models : all_results[x] # << >>} |->
            OverallStats(all_results[m])],
     speedup |->
        [idx \in PromptKeys(all_results) |->
            Speedup(Group(all_results, "runner", idx),
                    Group(all_results, "ollama", idx))]]

\* json.dump(results, f, indent=2): the dict's items in insertion order.
Dump(all_results) ==
    << <<"ollama", all_results["ollama"]>>,
       <<"runner", all_results["runner"]>> >>

\* ---------------------------------------------------------------- scheduler
\* The response profiles of a reachable backend: the clock readings around
\* the call and the response.
Profiles ==
    { [start_time |-> 0, end_time |-> TicksPerMs,
       response |-> [ok |-> TRUE, status_code |-> 200, text |-> <<"w", "w">>]],
      [start_time |-> 0, end_time |-> MaxTick,
       response |-> [ok |-> TRUE, status_code |-> 200,
                     text |-> <<"w", "s", "w">>]],
      [start_time |-> 1, end_time |-> 1,
       response |-> [ok |-> TRUE, status_code |-> 500, text |-> << >>]] }

Failed(inp) == [inp EXCEPT !.response.ok = FALSE]

\* What one call to backend m can meet: an unreachable backend always fails,
\* a reachable one answers by its profile or fails transiently.
CallInputs(m) ==
    IF m \in down THEN {Failed(backend[m])}
    ELSE {backend[m]}
         \cup (IF faults < MaxFaults THEN {Failed(backend[m])} ELSE {})

Faults(m, inp) ==
    IF m \notin down /\ ~inp.response.ok THEN faults + 1 ELSE faults

\* run_test for model m at the current loop position.
RunTest(m, idx, is_warmup, inp) ==
    run_test(m, PROMPTS[prompt_idx + 1], idx, prompt_idx,
             call_model(inp.start_time, inp.end_time, inp.response))

Logged(m, idx, is_warmup) ==
    Append(calls, [model |-> m, prompt_index |-> prompt_idx,
                   run_index |-> idx, is_warmup |-> is_warmup])

\* alternate_model_runs: the model called first and the one called second.
\* Mutant of CallOrder: no alternation.
CallOrderFixed(idx) == <<"runner", "ollama">>

CallOrder(idx) ==
    IF idx % 2 = 0 THEN <<"runner", "ollama">> ELSE <<"ollama", "runner">>
FirstModel(idx) == CallOrder(idx)[1]
SecondModel(idx) == CallOrder(idx)[2]

\* Mutant of AfterWarmUp: the warm-up result is recorded.
AfterWarmUpKept(all_results, rec) ==
    [all_results EXCEPT ![rec.model] = Append(@, rec)]

\* Lines 252-253: the value run_test returns for a warm-up is dropped.
AfterWarmUp(all_results, rec) == all_results

\* Mutant of AppendResults: the two results go to each other's list.
AppendResultsSwapped(all_results, runner_result, ollama_result) ==
    [all_results EXCEPT !["runner"] = Append(@, ollama_result),
                        !["ollama"] = Append(@, runner_result)]

\* Lines 259-260.
AppendResults(all_results, runner_result, ollama_result) ==
    [all_results EXCEPT !["runner"] = Append(@, runner_result),
                        !["ollama"] = Append(@, ollama_result)]

NoTable == [status |-> "none", rows |-> << >>]
NoReport == [status |-> "none", body |-> << >>]

SamplerIdle ==
    /\ start_time = 0 /\ end_time = 0
    /\ response = [ok |-> FALSE, status_code |-> 200, text |-> << >>]
    /\ result = << >> /\ record = << >>

StatsIdle == data = << >> /\ stats = << >> /\ overall = << >>

Init ==
    /\ PROMPTS \in {[k \in 1..n |-> k] : n \in 0..MaxPrompts}
    /\ RUNS_PER_PROMPT \in 0..MaxRuns
    /\ WARM_UP_RUNS \in 0..MaxWarmUp
    /\ down \in SUBSET Models
    /\ backend \in [Models -> Profiles]
    /\ faults = 0
    /\ pc = "for_prompt" /\ prompt_idx = 0 /\ i = 0 /\ run_idx = 0
    /\ results = [m \in Models |-> << >>]
    /\ pending = << >> /\ calls = << >>
    /\ table = NoTable /\ report = NoReport /\ store = << >>
    /\ SamplerIdle /\ StatsIdle

Config == <<PROMPTS, RUNS_PER_PROMPT, WARM_UP_RUNS, down, backend>>

\* for prompt_idx, prompt in enumerate(PROMPTS): (line 245)
ForPrompt ==
    /\ pc = "for_prompt"
    /\ IF prompt_idx < Len(PROMPTS)
       THEN pc' = "for_warmup" /\ i' = 0
       ELSE pc' = "table" /\ i' = i
    /\ UNCHANGED <<Config, faults, prompt_idx, run_idx, results, pending,
                   calls, table, report, store, samplerVars, statsVars>>

\* for i in range(WARM_UP_RUNS): (line 251)
ForWarmUp ==
    /\ pc = "for_warmup"
    /\ IF i < WARM_UP_RUNS
       THEN pc' = "warmup_runner" /\ run_idx' = run_idx
       ELSE pc' = "for_run" /\ run_idx' = 0
    /\ UNCHANGED <<Config, faults, prompt_idx, i, results, pending, calls,
                   table, report, store, samplerVars, statsVars>>

\* run_test("runner", ..., is_warmup=True) (line 252)
WarmUpRunner ==
    /\ pc = "warmup_runner"
    /\ \E inp \in CallInputs("runner") :
        /\ results' = AfterWarmUp(results, RunTest("runner", i, TRUE, inp))
        /\ faults' = Faults("runner", inp)
    /\ calls' = Logged("runner", i, TRUE)
    /\ pc' = "warmup_ollama"
    /\ UNCHANGED <<Config, prompt_idx, i, run_idx, pending, table, report,
                   store, samplerVars, statsVars>>

\* run_test("ollama", ..., is_warmup=True) (line 253)
WarmUpOllama ==
    /\ pc = "warmup_ollama"
    /\ \E inp \in CallInputs("ollama") :
        /\ results' = AfterWarmUp(results, RunTest("ollama", i, TRUE, inp))
        /\ faults' = Faults("ollama", inp)
    /\ calls' = Logged("ollama", i, TRUE)
    /\ i' = i + 1
    /\ pc' = "for_warmup"
    /\ UNCHANGED <<Config, prompt_idx, run_idx, pending, table, report,
                   store, samplerVars, statsVars>>

\* for run_idx in range(RUNS_PER_PROMPT): (line 257)
ForRun ==
    /\ pc = "for_run"
    /\ IF run_idx < RUNS_PER_PROMPT
       THEN pc' = "run_first" /\ prompt_idx' = prompt_idx
       ELSE pc' = "for_prompt" /\ prompt_idx' = prompt_idx + 1
    /\ UNCHANGED <<Config, faults, i, run_idx, results, pending, calls,
                   table, report, store, samplerVars, statsVars>>

\* The first run_test of alternate_model_runs (line 100 or 103).
RunFirst ==
    /\ pc = "run_first"
    /\ \E inp \in CallInputs(FirstModel(run_idx)) :
        /\ pending' = <<RunTest(FirstModel(run_idx), run_idx, FALSE, inp)>>
        /\ faults' = Faults(FirstModel(run_idx), inp)
    /\ calls' = Logged(FirstModel(run_idx), run_idx, FALSE)
    /\ pc' = "run_second"
    /\ UNCHANGED <<Config, prompt_idx, i, run_idx, results, table, report,
                   store, samplerVars, statsVars>>

\* The second run_test of alternate_model_runs (line 101 or 104), its return
\* (line 106) and the two appends of main (lines 259-260).
RunSecond ==
    /\ pc = "run_second"
    /\ \E inp \in CallInputs(SecondModel(run_idx)) :
        LET second == RunTest(SecondModel(run_idx), run_idx, FALSE, inp)
            first == pending[1]
            runner_result == IF first.model = "runner" THEN first ELSE second
            ollama_result == IF first.model = "ollama" THEN first ELSE second
        IN  /\ results' = AppendResults(results, runner_result, ollama_result)
            /\ faults' = Faults(SecondModel(run_idx), inp)
    /\ calls' = Logged(SecondModel(run_idx), run_idx, FALSE)
    /\ pending' = << >>
    /\ run_idx' = run_idx + 1
    /\ pc' = "for_run"
    /\ UNCHANGED <<Config, prompt_idx, i, table, report, store, samplerVars,
                   statsVars>>

\* print_results_table(results) (line 262), outside any try: an exception it
\* raises (an empty group, or the terminal refusing a print) leaves main.
PrintResultsTable ==
    /\ pc = "table"
    /\ \E raises \in {TableRaises(results), TRUE} :
        IF raises
        THEN pc' = "crashed" /\ table' = table
        ELSE pc' = "report"
             /\ table' = [status |-> "printed",
                          rows |-> print_results_table(results)]
    /\ UNCHANGED <<Config, faults, prompt_idx, i, run_idx, results, pending,
                   calls, report, store, samplerVars, statsVars>>

\* The try / except Exception around generate_detailed_report (lines
\* 264-268): whatever it raises (no rows, a failing plot) is caught.
GenerateDetailedReport ==
    /\ pc = "report"
    /\ \E raises \in {ReportRaises(results), TRUE} :
        report' = IF raises
                  THEN [status |-> "failed", body |-> << >>]
                  ELSE [status |-> "printed",
                        body |-> generate_detailed_report(results)]
    /\ pc' = "save"
    /\ UNCHANGED <<Config, faults, prompt_idx, i, run_idx, results, pending,
                   calls, table, store, samplerVars, statsVars>>

\* Lines 271-277: the snapshot file is written.
Save ==
    /\ pc = "save"
    /\ store' = Append(store, Dump(results))
    /\ pc' = "done"
    /\ UNCHANGED <<Config, faults, prompt_idx, i, run_idx, results, pending,
                   calls, table, report, samplerVars, statsVars>>

Next ==
    \/ ForPrompt \/ ForWarmUp \/ WarmUpRunner \/ WarmUpOllama
    \/ ForRun \/ RunFirst \/ RunSecond
    \/ PrintResultsTable \/ GenerateDetailedReport \/ Save

Spec == Init /\ [][Next]_vars

\* ------------------------------------------------------- sampler harness
\* call_model and run_test applied to every pair of clock readings and every
\* response of the bounded sets.
SchedulerIdle ==
    /\ PROMPTS = << >> /\ RUNS_PER_PROMPT = 0 /\ WARM_UP_RUNS = 0
    /\ down = {} /\ backend = << >> /\ faults = 0
    /\ pc = "idle" /\ prompt_idx = 0 /\ i = 0 /\ run_idx = 0
    /\ results = [m \in Models |-> << >>]
    /\ pending = << >> /\ calls = << >>
    /\ table = NoTable /\ report = NoReport /\ store = << >>

InitSampler ==
    /\ SchedulerIdle /\ StatsIdle
    /\ start_time \in 0..MaxTick
    /\ end_time \in 0..MaxTick
    /\ response \in Responses
    /\ result = << >> /\ record = << >>

SampleCall ==
    /\ result = << >>
    /\ result' = <<call_model(start_time, end_time, response)>>
    /\ UNCHANGED <<schedVars, statsVars, start_time, end_time, response,
                   record>>

SampleRunTest ==
    /\ result # << >> /\ record = << >>
    /\ \E m \in Models : record' = <<run_test(m, 1, 0, 0, result[1])>>
    /\ UNCHANGED <<schedVars, statsVars, start_time, end_time, response,
                   result>>

NextSampler == SampleCall \/ SampleRunTest

SpecSampler == InitSampler /\ [][NextSampler]_vars

\* ----------------------------------------------------- aggregator harness
\* The records the sampler can produce for the profiles, a transport failure
\* and a wall clock that was set back during the call.
SampleInputs ==
    Profiles
    \cup {Failed(p) : p \in Profiles}
    \cup {[start_time |-> MaxTick, end_time |-> 0,
           response |-> [ok |-> TRUE, status_code |-> 200,
                         text |-> <<"w", "w">>]]}

SampleRecords ==
    {run_test("ollama", 1, 0, 0,
              call_model(inp.start_time, inp.end_time, inp.response)) :
        inp \in SampleInputs}

InitStats ==
    /\ SchedulerIdle /\ SamplerIdle
    /\ data \in UNION {[1..n -> SampleRecords] : n \in 0..MaxLen}
    /\ stats = << >> /\ overall = << >>

ApplyCalculateStats ==
    /\ stats = << >>
    /\ stats' = <<calculate_stats(data)>>
    /\ UNCHANGED <<schedVars, samplerVars, data, overall>>

\* The aggregation of generate_detailed_report over one model's records.
ApplyOverallStats ==
    /\ data # << >> /\ overall = << >>
    /\ overall' = <<OverallStats(data)>>
    /\ UNCHANGED <<schedVars, samplerVars, data, stats>>

NextStats == ApplyCalculateStats \/ ApplyOverallStats

SpecStats == InitStats /\ [][NextStats]_vars

\* ================================================================== claims
IsPrefix(s, t) == Len(s) <= Len(t) /\ \A k \in 1..Len(s) : s[k] = t[k]

\* The measured (not warm-up) calls issued so far, in call order.
MeasuredCalls == SelectSeq(calls, LAMBDA c : ~c.is_warmup)

SameIteration(c, d) ==
    c.prompt_index = d.prompt_index /\ c.run_index = d.run_index

\* The measured calls come in pairs of one iteration, the model `even` first
\* on even run indices and the other model first on odd ones.
PairsOrdered(even, odd) ==
    LET M == MeasuredCalls
    IN  \A k \in 1..Len(M) :
            IF k % 2 = 1
            THEN M[k].model = (IF M[k].run_index % 2 = 0 THEN even ELSE odd)
            ELSE /\ SameIteration(M[k - 1], M[k])
                 /\ M[k].model = (IF M[k].run_index % 2 = 0 THEN odd ELSE even)

AllZero(r) ==
    /\ r.elapsed_ms = 0 /\ r.status_code = 0
    /\ r.token_count = 0 /\ r.tokens_per_second = 0

SamplingDone == pc \in {"table", "report", "save", "done", "crashed"}

\* C2: a transport failure yields the all-zero sentinel, no call is issued
\* twice, every outcome of the calls lets the scheduler finish the whole
\* prompt x iteration matrix without print_results_table raising on the data,
\* and the snapshot written holds the all-zero records of an unreachable
\* backend beside the records of the other.
C2_TransportFailureContained ==
    /\ \A m \in Models : \A k \in 1..Len(results[m]) :
          /\ results[m][k].status_code = 0 => AllZero(results[m][k])
          /\ m \in down => AllZero(results[m][k])
    /\ \A k \in 1..Len(pending) :
          pending[k].status_code = 0 => AllZero(pending[k])
    /\ Cardinality({calls[k] : k \in 1..Len(calls)}) = Len(calls)
    /\ SamplingDone =>
          /\ Len(calls) = 2 * Len(PROMPTS) * (WARM_UP_RUNS + RUNS_PER_PROMPT)
          /\ \A m \in Models :
                Len(results[m]) = Len(PROMPTS) * RUNS_PER_PROMPT
    /\ pc = "table" => ~TableRaises(results)
    /\ pc = "done" => store = <<Dump(results)>>

C2_Witness ==
    /\ pc = "done"
    /\ down = {"ollama"}
    /\ Len(store) = 1
    /\ Len(store[1][1][2]) >= 2
    /\ \A k \in 1..Len(store[1][1][2]) : AllZero(store[1][1][2][k])
    /\ \E k \in 1..Len(store[1][2][2]) : store[1][2][2][k].status_code = 200

\* C3 as claimed: once sampling has completed with records taken and main
\* has ended, the snapshot with the records has been written, whether or not
\* reporting (print_results_table or generate_detailed_report) failed.
C3_SnapshotSurvivesReporting ==
    (pc \in {"done", "crashed"} /\ results["runner"] # << >>)
        => store = <<Dump(results)>>

\* C4: no warm-up result is recorded (every record answers a measured call of
\* its own model), and when the scheduler loop has finished each (backend,
\* prompt) group holds exactly RUNS_PER_PROMPT records with run_index
\* 0..RUNS_PER_PROMPT-1 in turn.
C4_MeasuredRunsOnly ==
    /\ \A m \in Models :
          Len(results[m])
            + Cardinality({k \in 1..Len(pending) : pending[k].model = m})
          = Len(SelectSeq(MeasuredCalls, LAMBDA c : c.model = m))
    /\ SamplingDone =>
          \A m \in Models : \A p \in 0..(Len(PROMPTS) - 1) :
              LET g == Group(results, m, p)
              IN  /\ Len(g) = RUNS_PER_PROMPT
                  /\ \A k \in 1..Len(g) :
                        g[k].run_index = k - 1 /\ g[k].model = m
    /\ SamplingDone =>
          \A m \in Models : \A k \in 1..Len(results[m]) :
              results[m][k].prompt_index \in 0..(Len(PROMPTS) - 1)

C4_Witness ==
    /\ pc = "table"
    /\ WARM_UP_RUNS >= 1 /\ RUNS_PER_PROMPT >= 2 /\ Len(PROMPTS) >= 2
    /\ \E k \in 1..Len(calls) : calls[k].is_warmup

\* C5 as claimed: wherever a ratio is printed, a denominator statistic of 0
\* gives the ratio 0: the three ratios of print_results_table and the speedup
\* factor of generate_detailed_report.
C5_EveryRatioGuarded ==
    /\ table.status = "printed" =>
          \A idx \in DOMAIN table.rows :
              LET row == table.rows[idx]
              IN  /\ row.runner.avg_time = 0 => row.time_ratio = 0
                  /\ row.runner.avg_tokens = 0 => row.token_ratio = 0
                  /\ row.ollama.avg_tps = 0 => row.tps_ratio = 0
    /\ report.status = "printed" =>
          \A idx \in DOMAIN report.body.speedup :
              Sum(Column(Group(results, "ollama", idx), "tokens_per_second"))
                = 0
              => report.body.speedup[idx] = Num(0)

\* C6 as claimed: elapsed_ms of a record returned by call_model is never
\* negative and is 0 only for a transport failure (status_code = 0).
C6_ZeroOnlyOnFailure ==
    result # << >> =>
        /\ result[1].elapsed_ms >= 0
        /\ result[1].elapsed_ms = 0 => result[1].status_code = 0

\* C6 amended: a transport failure gives elapsed_ms = 0 with status_code = 0;
\* a call that received a response keeps the response's status code and has
\* elapsed_ms = round(end - start), which is at least 1 exactly when the two
\* readings are more than half a millisecond apart, and negative exactly when
\* the second reading is more than half a millisecond before the first.
C6_RoundedDifference ==
    result # << >> =>
        IF response.ok
        THEN /\ result[1].status_code = response.status_code
             /\ result[1].elapsed_ms >= 1
                  <=> 2 * (end_time - start_time) > TicksPerMs
             /\ result[1].elapsed_ms <= -1
                  <=> 2 * (start_time - end_time) > TicksPerMs
        ELSE result[1].elapsed_ms = 0 /\ result[1].status_code = 0

C6_Witness ==
    /\ result # << >>
    /\ response.ok
    /\ end_time > start_time
    /\ result[1].elapsed_ms = 0
    /\ result[1].status_code = 200

\* C7 as claimed: the tokens_per_second that run_test stores is exactly
\* token_count / (elapsed_ms / 1000) when elapsed_ms > 0, and 0 otherwise.
C7_UnroundedThroughput ==
    record # << >> =>
        IF record[1].elapsed_ms > 0
        THEN record[1].tokens_per_second * record[1].elapsed_ms
                = record[1].token_count * 1000 * 100
        ELSE record[1].tokens_per_second = 0

\* C7 amended: call_model rounds tokens_per_second to 2 decimals before it
\* returns, and run_test stores that value unchanged: the stored value is a
\* multiple of 0.01 within 0.005 of token_count / (elapsed_ms / 1000) when
\* elapsed_ms > 0, and 0 otherwise.
C7_RoundedThroughput ==
    record # << >> =>
        /\ record[1].tokens_per_second = result[1].tokens_per_second
        /\ IF record[1].elapsed_ms > 0
           THEN 2 * Abs(record[1].tokens_per_second * record[1].elapsed_ms
                          - record[1].token_count * 1000 * 100)
                    <= record[1].elapsed_ms
           ELSE record[1].tokens_per_second = 0

C7_Witness ==
    /\ record # << >>
    /\ record[1].elapsed_ms > 0
    /\ record[1].tokens_per_second * record[1].elapsed_ms
          # record[1].token_count * 1000 * 100

\* C8 as claimed: for a group of exactly 1 record the standard deviation
\* reported is 0, both stdev_ms of calculate_stats and the 'std' column of the
\* overall statistics of generate_detailed_report.
C8_SingleRecordStdZero ==
    Len(data) = 1 =>
        /\ stats # << >> => stats[1].stdev_ms = 0
        /\ overall # << >> => overall[1].std = Num(0)

\* C9: for a non-empty list calculate_stats returns count = the number of
\* records, min_ms <= avg_ms <= max_ms and min_ms <= median_ms <= max_ms
\* (avg and median rounded to 2 decimals); for an empty list it returns the
\* empty mapping.
C9_StatsOrdered ==
    stats # << >> =>
        IF data = << >> THEN DOMAIN stats[1] = {}
        ELSE LET st == stats[1]
             IN  /\ st.count = Len(data)
                 /\ \A k \in 1..Len(data) :
                       st.min_ms <= data[k].elapsed_ms
                       /\ data[k].elapsed_ms <= st.max_ms
                 /\ 100 * st.min_ms <= st.avg_ms
                 /\ st.avg_ms <= 100 * st.max_ms
                 /\ 100 * st.min_ms <= st.median_ms
                 /\ st.median_ms <= 100 * st.max_ms

C9_Witness ==
    /\ stats # << >>
    /\ Len(data) >= 2
    /\ 100 * stats[1].min_ms < stats[1].avg_ms
    /\ stats[1].avg_ms < 100 * stats[1].max_ms
    /\ stats[1].avg_ms # stats[1].median_ms

\* Each backend's list holds that backend's records in strictly increasing
\* (prompt_index, run_index) order.
Ordered(recs, m) ==
    /\ \A k \in 1..Len(recs) : recs[k].model = m
    /\ \A k \in 1..(Len(recs) - 1) :
          \/ recs[k].prompt_index < recs[k + 1].prompt_index
          \/ /\ recs[k].prompt_index = recs[k + 1].prompt_index
             /\ recs[k].run_index < recs[k + 1].run_index

C10_State ==
    /\ \A m \in Models : Ordered(results[m], m)
    /\ Len(store) <= 1
    /\ store # << >> =>
          /\ pc = "done"
          /\ Len(calls) = 2 * Len(PROMPTS) * (WARM_UP_RUNS + RUNS_PER_PROMPT)
          /\ store[1] = << <<"ollama", results["ollama"]>>,
                           <<"runner", results["runner"]>> >>
          /\ \A m \in Models :
                Len(results[m]) = Len(PROMPTS) * RUNS_PER_PROMPT

C10_Step ==
    /\ IsPrefix(store, store')
    /\ \A m \in Models :
          /\ IsPrefix(results[m], results'[m])
          /\ Len(results'[m]) <= Len(results[m]) + 1
          /\ Len(results'[m]) = Len(results[m]) + 1 =>
                /\ Len(calls') = Len(calls) + 1
                /\ \E k \in 1..Len(calls') :
                      /\ ~calls'[k].is_warmup
                      /\ calls'[k].model = m
                      /\ SameIteration(calls'[k],
                                       results'[m][Len(results'[m])])

\* C10: the record lists only grow, by one record per measured call and after
\* that call, each list in (prompt_index, run_index) order whichever backend
\* was called first; the snapshot is written once, after the last sample, and
\* holds the complete lists grouped by backend.
C10_AppendOnlyPersistedOnce == []C10_State /\ [][C10_Step]_vars

C10_Witness ==
    /\ store # << >>
    /\ Len(store[1][1][2]) >= 4
    /\ Len(PROMPTS) >= 2
    /\ faults > 0

====
